---------------------------- MODULE Spec2Model ----------------------------
(***************************************************************************)
(* chartmuseum2oci: migration of Helm charts from the Chartmuseum backend  *)
(* of a Harbor registry to its OCI registry (src/chartmuseum2oci/main.go). *)
(*                                                                         *)
(* The model follows one process run: init() (flags, Harbor clients, host) *)
(* then main(): checkHelmVersion, helmLogin, getHarborChartmuseumCharts    *)
(* and the migration loop.  Every call that leaves the process (Harbor     *)
(* API request, HTTP GET, helm subprocess, file system call) is one step   *)
(* whose outcome is drawn nondeterministically.                            *)
(*                                                                         *)
(* Strings that the code takes apart or puts together (helm's version      *)
(* output, file names, URLs) are sequences of one-character or one-token   *)
(* strings, so that trimming, splitting and formatting are computed.       *)
(***************************************************************************)
EXTENDS Integers, Sequences, FiniteSets, TLC

(***************************************************************************)
(* Program constants.                                                      *)
(***************************************************************************)
defaultPageSize == 10

\* minVersion = "v3.19.0"
minVersion == <<"v", "3", ".", "1", "9", ".", "0">>

StatusOK == 200

(***************************************************************************)
(* Bounds of the model.                                                    *)
(***************************************************************************)
\* pages of the project listing requested in one run
MaxPages == 2
\* charts accumulated by one listing
MaxCharts == 2

(***************************************************************************)
(* Input universes.                                                        *)
(***************************************************************************)
Projects == {"pr1", "pr2", "pr3"}
ChartNames == {<<"demo">>, <<"app">>}
ChartVersions == {<<"1.0.0">>, <<"2.0.0">>}

\* type HelmChart struct { Name, Project, Version }
HelmChart == [Name : ChartNames, Project : Projects, Version : ChartVersions]

\* pages of projects the server may return: empty, short, with a project
\* twice, and the three projects of the README's filtering example
ProjectPages == { <<>>, <<"pr1">>, <<"pr3">>, <<"pr1", "pr2">>,
                  <<"pr2", "pr3">>, <<"pr1", "pr1">>,
                  <<"pr1", "pr2", "pr3">> }

\* the values the server may report as X-Total-Count: nothing, more than a
\* short page holds, a full page, more than a page
TotalCounts == {0, 4, defaultPageSize, defaultPageSize + 1}

\* per-project chart name listings and per-chart version listings
NameListings == { <<>>, <<<<"demo">>>>, <<<<"demo">>, <<"app">>>>,
                  <<<<"demo">>, <<"demo">>>> }
VersionListings == { <<>>, <<<<"1.0.0">>>>, <<<<"2.0.0">>, <<"1.0.0">>>>,
                     <<<<"1.0.0">>, <<"1.0.0">>>> }

\* -url values: missing, well-formed, without scheme, unparsable
HarborURLs == { <<>>,
                <<"https", "://", "harbor.local">>,
                <<":", "harbor.local">> }
Credentials == {"", "admin"}

\* -destpath values: none, or a sub-path within the project
DestPaths == { <<>>, <<"/charts">> }

\* -destproject values of the earlier version of the tool: none, or a project
DestProjects == {"", "library"}

\* -project values (ProjectsToMigrateList)
ProjectFilters == { <<>>, <<"pr1">>, <<"pr1", "pr2">> }

\* what the Chartmuseum backend stores when the run starts: a chart listed
\* for pr3 is no longer there when it is fetched
ChartmuseumStore == {c \in HelmChart : c.Project # "pr3"}

(***************************************************************************)
(* String helpers (package strings).                                       *)
(***************************************************************************)
Digits == {"0", "1", "2", "3", "4", "5", "6", "7", "8", "9"}

DigitVal(c) ==
    CASE c = "0" -> 0 [] c = "1" -> 1 [] c = "2" -> 2 [] c = "3" -> 3
      [] c = "4" -> 4 [] c = "5" -> 5 [] c = "6" -> 6 [] c = "7" -> 7
      [] c = "8" -> 8 [] c = "9" -> 9

\* strings.TrimPrefix(s, p) for a one-character p
TrimPrefix(s, p) == IF Len(s) >= 1 /\ s[1] = p THEN Tail(s) ELSE s

\* strings.Index(s, c) for a one-character c: 1-based, 0 when absent (Go: -1)
Index(s, c) ==
    IF \E i \in 1..Len(s) : s[i] = c
    THEN CHOOSE i \in 1..Len(s) : s[i] = c /\ \A j \in 1..(i - 1) : s[j] # c
    ELSE 0

\* strings.Split(s, c) for a one-character c
RECURSIVE Split(_, _)
Split(s, c) ==
    LET i == Index(s, c) IN
    IF i = 0 THEN <<s>>
    ELSE <<SubSeq(s, 1, i - 1)>> \o Split(SubSeq(s, i + 1, Len(s)), c)

(***************************************************************************)
(* Version gate: extractVersionFromOutput, semver.IsValid, semver.Compare, *)
(* checkHelmVersion.                                                       *)
(***************************************************************************)
\* mutant: the part from the first '+' on is not cut off
extractVersionKeepsMetadata(output) ==
    LET version == TrimPrefix(output, "v")
        parts == Split(version, ".")
    IN IF Len(parts) # 3 THEN <<>> ELSE version

\* func extractVersionFromOutput(output string) string; <<>> is ""
extractVersionFromOutput(output) ==
    LET trimmed == TrimPrefix(output, "v")
        plusIndex == Index(trimmed, "+")
        version == IF plusIndex # 0 THEN SubSeq(trimmed, 1, plusIndex - 1)
                   ELSE trimmed
        parts == Split(version, ".")
    IN IF Len(parts) # 3 THEN <<>> ELSE version

\* a decimal number without leading zeros (semver's parseInt)
IsNumber(s) ==
    /\ Len(s) >= 1
    /\ \A i \in 1..Len(s) : s[i] \in Digits
    /\ (s[1] = "0" => Len(s) = 1)

RECURSIVE NumVal(_)
NumVal(s) ==
    IF s = <<>> THEN 0
    ELSE 10 * NumVal(SubSeq(s, 1, Len(s) - 1)) + DigitVal(s[Len(s)])

IdentChars == Digits \cup {"a", "b", "c", "e", "g", "r", "x", "-"}

\* a single prerelease identifier: [0-9A-Za-z-]+, numeric ones without
\* leading zeros
IsPrereleaseIdent(s) ==
    /\ Len(s) >= 1
    /\ \A i \in 1..Len(s) : s[i] \in IdentChars
    /\ ((\A i \in 1..Len(s) : s[i] \in Digits) => IsNumber(s))

\* the patch component with its optional "-prerelease" tail
PatchCore(p) ==
    LET i == Index(p, "-") IN IF i = 0 THEN p ELSE SubSeq(p, 1, i - 1)

PatchPrerelease(p) ==
    LET i == Index(p, "-") IN IF i = 0 THEN <<>> ELSE SubSeq(p, i, Len(p))

\* semver.IsValid("v" + versionStr), for a versionStr with exactly three
\* dot-separated parts and no '+' (what extractVersionFromOutput returns)
semverIsValid(versionStr) ==
    LET parts == Split(versionStr, ".") IN
    /\ Len(parts) = 3
    /\ IsNumber(parts[1])
    /\ IsNumber(parts[2])
    /\ IsNumber(PatchCore(parts[3]))
    /\ LET pre == PatchPrerelease(parts[3]) IN
          pre = <<>> \/ IsPrereleaseIdent(Tail(pre))

\* the parsed form of a valid version
Parsed(versionStr) ==
    LET parts == Split(versionStr, ".") IN
    [major |-> NumVal(parts[1]), minor |-> NumVal(parts[2]),
     patch |-> NumVal(PatchCore(parts[3])),
     prerelease |-> PatchPrerelease(parts[3])]

\* mutant: major, minor and patch are compared, the prerelease is not
semverCompareCoreOnly(versionStr, min) ==
    LET a == Parsed(versionStr)
        b == Parsed(Tail(min))
    IN IF a.major # b.major THEN (IF a.major < b.major THEN -1 ELSE 1)
       ELSE IF a.minor # b.minor THEN (IF a.minor < b.minor THEN -1 ELSE 1)
       ELSE IF a.patch # b.patch THEN (IF a.patch < b.patch THEN -1 ELSE 1)
       ELSE 0

\* semver.Compare("v" + versionStr, minVersion): -1, 0 or +1.  minVersion
\* has no prerelease, so a version with the same core and a prerelease
\* orders below it.
semverCompare(versionStr, min) ==
    LET a == Parsed(versionStr)
        b == Parsed(Tail(min))
    IN IF a.major # b.major THEN (IF a.major < b.major THEN -1 ELSE 1)
       ELSE IF a.minor # b.minor THEN (IF a.minor < b.minor THEN -1 ELSE 1)
       ELSE IF a.patch # b.patch THEN (IF a.patch < b.patch THEN -1 ELSE 1)
       ELSE IF a.prerelease = b.prerelease THEN 0
       ELSE IF a.prerelease = <<>> THEN 1
       ELSE IF b.prerelease = <<>> THEN -1
       ELSE 0

\* func checkHelmVersion() error, as a function of helm's trimmed output:
\* "ok" or the error returned
checkHelmVersion(versionOutput) ==
    LET versionStr == extractVersionFromOutput(versionOutput) IN
    IF versionStr = <<>> THEN "ParseError"
    ELSE IF ~semverIsValid(versionStr) THEN "FormatError"
    ELSE IF semverCompare(versionStr, minVersion) < 0 THEN "TooOldError"
    ELSE "ok"

\* strings.Join(parts, sep) for a one-character sep
RECURSIVE Join(_, _)
Join(parts, sep) ==
    IF parts = <<>> THEN <<>>
    ELSE IF Len(parts) = 1 THEN parts[1]
    ELSE parts[1] \o <<sep>> \o Join(Tail(parts), sep)

\* the parts of a version as helm reports it:
\* [v]major.minor.patch[-prerelease][+metadata]
VersionPrefixes == {<<>>, <<"v">>}
Majors == {<<"2">>, <<"3">>, <<"4">>}
Minors == {<<"0">>, <<"1", "8">>, <<"1", "9">>, <<"2", "0">>}
Patches == {<<"0">>, <<"1">>, <<"9">>}
VersionCores ==
    {<<major, minor, patch>> :
        major \in Majors, minor \in Minors, patch \in Patches}
    \cup {<<<<"3">>>>,
          <<<<"3">>, <<"1", "9">>>>,
          <<<<"3">>, <<"1", "9">>, <<"0">>, <<"1">>>>}
Prereleases == {<<>>, <<"-", "r", "c", "1">>}
Metadata == {<<>>, <<"+", "g", "c", "e">>}

\* what `helm version --short` prints for such a version
ShortVersion(prefix, core, prerelease, metadata) ==
    prefix \o Join(core, ".") \o prerelease \o metadata

\* outputs of `helm version --short`: the versions above, and some output
\* that is no version
HelmOutputs ==
    {ShortVersion(prefix, core, prerelease, metadata) :
        prefix \in VersionPrefixes, core \in VersionCores,
        prerelease \in Prereleases, metadata \in Metadata}
    \cup {<<>>,
          <<"v", "3", ".", "x", ".", "0">>,
          <<"v", "v", "3", ".", "1", "9", ".", "0">>,
          <<"v", "3", ".", "0", "1", "9", ".", "0">>}


(***************************************************************************)
(* Small pure helpers of the program.                                      *)
(***************************************************************************)
Range(s) == {s[i] : i \in 1..Len(s)}

\* func (l ProjectsToMigrateList) Includes(a string) bool
Includes(l, a) == \E i \in 1..Len(l) : l[i] = a

\* mutant: the filter is never applied
RetainedAlways(filter, name) == TRUE

\* the filter test of the project loop: the project is listed unless a
\* non-empty filter does not include it
Retained(filter, name) == ~(Len(filter) > 0 /\ ~Includes(filter, name))

\* mutant: the exit test looks one page ahead
LastPageAhead(total, pg) == total <= (pg + 1) * defaultPageSize

\* mutant: the exit test with < for <=
LastPageStrict(total, pg) == total < pg * defaultPageSize

\* the loop's exit test: projects.XTotalCount <= page * pageSize
LastPage(total, pg) == total <= pg * defaultPageSize

\* func (hc HelmChart) ChartFileName() string: "%s-%s.tgz"
ChartFileName(hc) == hc.Name \o <<"-">> \o hc.Version \o <<".tgz">>

\* url.Parse(harborURL): fails on a missing protocol scheme
UrlParseFails(u) == Len(u) >= 1 /\ u[1] = ":"

\* u.Host of the parsed URL ("" when the URL has no "scheme://" part)
UrlHost(u) == IF Len(u) = 3 /\ u[2] = "://" THEN u[3] ELSE ""

\* the charts of one version listing, in the order returned
ChartsOf(project, name, versions) ==
    [i \in 1..Len(versions) |->
        [Name |-> name, Project |-> project, Version |-> versions[i]]]

\* the payload the Chartmuseum backend serves for a stored chart
Payload(hc) == <<"tgz", hc.Project, hc.Name, hc.Version>>

\* no request has been sent, or its outcome has been dealt with
NoResponse == [err |-> FALSE, StatusCode |-> 0]

\* the body of the answer to the GET of a chart
Body(status, hc) == IF status = StatusOK THEN Payload(hc) ELSE <<"error">>

(***************************************************************************)
(* State.                                                                  *)
(***************************************************************************)
VARIABLES
    pc,                 \* where the process is
    exitError,          \* the error log.Fatal reported, "" when none
    \* flags and globals
    harborURL, harborUsername, harborPassword, showVersion,
    projectsToMigrate, destPath, harborHost,
    \* the world outside the process
    chartmuseum,        \* charts stored in the Chartmuseum backend
    oci,                \* what has been pushed to the OCI registry
    files,              \* files of the working directory: name -> content
    \* pullChartFromChartmuseum
    res,                \* the outcome of httpClient.Do
    \* getHarborChartmuseumCharts / getHarborProjectChartmuseumCharts
    page, payload, xTotalCount, helmCharts,
    projectName, chartNames, projectHelmCharts,
    \* main
    helmChartsToMigrate, idx, errorCount, out,
    \* checkHelmVersion
    versionOutput, versionStr,
    \* history of the run (not program state)
    events,             \* stages entered and ListProjects requests, in order
    listFailed,         \* a request of the listing has failed
    received,           \* projects received over all pages so far
    projectsSeen,       \* names of the projects received
    repeated,           \* the server returned a project, name or version twice
    chartsRequests,     \* projects whose chart listing was requested
    versionsReturned,   \* charts returned by the version listings
    totals,             \* total counts reported with the pages so far
    arrived,            \* charts of the version listings, as they arrived
    legacyOps,          \* HTTP methods sent to the Chartmuseum backend
    calls,              \* sub-steps of the transfer in progress
    results             \* one record for every transfer that has returned

cfgVars == <<harborURL, harborUsername, harborPassword, showVersion,
             projectsToMigrate, destPath>>
listVars == <<page, payload, xTotalCount, helmCharts, projectName,
              chartNames, projectHelmCharts>>
listHist == <<listFailed, received, projectsSeen, repeated, chartsRequests,
              versionsReturned, totals, arrived>>
mainVars == <<helmChartsToMigrate, idx, errorCount, out>>
gateVars == <<versionOutput, versionStr>>
xferVars == <<oci, files, res, calls, results>>
vars == <<pc, exitError, cfgVars, gateVars, harborHost, chartmuseum,
          listVars, listHist, mainVars, xferVars, events, legacyOps>>

\* log.Fatal: the process exits at once
Fatal(err) == pc' = "fatal" /\ exitError' = err

Init ==
    /\ pc = "initFlags"
    /\ exitError = ""
    /\ harborURL \in HarborURLs
    /\ harborUsername \in Credentials
    /\ harborPassword \in Credentials
    /\ showVersion \in BOOLEAN
    /\ projectsToMigrate \in ProjectFilters
    \* -destpath is explored together with -project pr1
    /\ destPath \in (IF projectsToMigrate = <<"pr1">> THEN DestPaths
                     ELSE {<<>>})
    /\ harborHost = ""
    /\ chartmuseum = ChartmuseumStore
    /\ oci = {}
    /\ files = <<>>
    /\ res = NoResponse
    /\ page = 0
    /\ payload = <<>>
    /\ xTotalCount = 0
    /\ helmCharts = <<>>
    /\ projectName = ""
    /\ chartNames = <<>>
    /\ projectHelmCharts = <<>>
    /\ helmChartsToMigrate = <<>>
    /\ idx = 0
    /\ errorCount = 0
    /\ out = <<>>
    /\ versionOutput = <<>>
    /\ versionStr = <<>>
    /\ events = <<>>
    /\ listFailed = FALSE
    /\ received = 0
    /\ projectsSeen = {}
    /\ repeated = FALSE
    /\ chartsRequests = {}
    /\ versionsReturned = {}
    /\ totals = {}
    /\ arrived = <<>>
    /\ legacyOps = {}
    /\ calls = <<>>
    /\ results = <<>>

(***************************************************************************)
(* init(): initFlags, initHarborClients, initHarborHost.                   *)
(***************************************************************************)
\* mutant: the password is not required
initFlagsPasswordOptional ==
    /\ pc = "initFlags"
    /\ IF showVersion THEN pc' = "exit" /\ exitError' = ""
       ELSE IF harborURL = <<>> THEN Fatal("Missing required --url flag")
       ELSE IF harborUsername = ""
            THEN Fatal("Missing required --username flag")
       ELSE pc' = "initHarborClients" /\ exitError' = ""
    /\ UNCHANGED <<cfgVars, gateVars, harborHost, chartmuseum, listVars,
                   listHist, mainVars, xferVars, events, legacyOps>>

\* func initFlags(): --version prints the version and exits; a missing
\* --url, --username or --password is fatal
initFlags ==
    /\ pc = "initFlags"
    /\ IF showVersion THEN pc' = "exit" /\ exitError' = ""
       ELSE IF harborURL = <<>> THEN Fatal("Missing required --url flag")
       ELSE IF harborUsername = ""
            THEN Fatal("Missing required --username flag")
       ELSE IF harborPassword = ""
            THEN Fatal("Missing required --password flag")
       ELSE pc' = "initHarborClients" /\ exitError' = ""
    /\ UNCHANGED <<cfgVars, gateVars, harborHost, chartmuseum, listVars,
                   listHist, mainVars, xferVars, events, legacyOps>>

\* harbor.NewClientSet fails: no request is sent
initHarborClientsNoClient ==
    /\ pc = "initHarborClients"
    /\ Fatal("fail to create harbor client")
    /\ UNCHANGED <<cfgVars, gateVars, harborHost, chartmuseum, listVars,
                   listHist, mainVars, xferVars, events, legacyOps>>

\* the credential check: one ListProjects request without paging parameters
initHarborClients ==
    /\ pc = "initHarborClients"
    /\ events' = Append(events, "ListProjects")
    /\ \/ Fatal("fail to contact Harbor registry, check your credentials")
       \/ pc' = "initHarborHost" /\ exitError' = ""
    /\ UNCHANGED <<cfgVars, gateVars, harborHost, chartmuseum, listVars,
                   listHist, mainVars, xferVars, legacyOps>>

initHarborHost ==
    /\ pc = "initHarborHost"
    /\ IF UrlParseFails(harborURL)
       THEN Fatal("fail to parse Harbor URL") /\ UNCHANGED harborHost
       ELSE /\ harborHost' = UrlHost(harborURL)
            /\ pc' = "checkHelmVersion"
            /\ exitError' = ""
    /\ UNCHANGED <<cfgVars, gateVars, chartmuseum, listVars, listHist,
                   mainVars, xferVars, events, legacyOps>>

(***************************************************************************)
(* main(): version gate and login.                                         *)
(***************************************************************************)
\* `helm version --short` cannot be run
mainCheckHelmVersionNoHelm ==
    /\ pc = "checkHelmVersion"
    /\ events' = events \o <<"VersionGate", "VersionGateFailed">>
    /\ Fatal("fail to execute helm version command")
    /\ UNCHANGED <<cfgVars, gateVars, harborHost, chartmuseum, listVars,
                   listHist, mainVars, xferVars, legacyOps>>

\* mutant: the error of the version check is logged, and main goes on
mainCheckHelmVersionIgnoresError ==
    /\ pc = "checkHelmVersion"
    /\ \E stdOut \in HelmOutputs :
          LET err == checkHelmVersion(stdOut) IN
          /\ versionOutput' = stdOut
          /\ versionStr' = extractVersionFromOutput(stdOut)
          /\ IF err = "ok"
             THEN events' = Append(events, "VersionGate")
             ELSE events' = events \o <<"VersionGate", "VersionGateFailed">>
    /\ pc' = "helmLogin"
    /\ UNCHANGED <<exitError, cfgVars, harborHost, chartmuseum, listVars,
                   listHist, mainVars, xferVars, legacyOps>>

\* mutant: main does not call checkHelmVersion
mainCheckHelmVersionSkipped ==
    /\ pc = "checkHelmVersion"
    /\ pc' = "helmLogin"
    /\ UNCHANGED <<exitError, cfgVars, gateVars, harborHost, chartmuseum,
                   listVars, listHist, mainVars, xferVars, events, legacyOps>>

\* main calls checkHelmVersion, which runs `helm version --short` and
\* checks what it printed; an error is fatal.  The locals of
\* checkHelmVersion are kept until main calls helmLogin.
mainCheckHelmVersion ==
    /\ pc = "checkHelmVersion"
    /\ \E stdOut \in HelmOutputs :
          LET err == checkHelmVersion(stdOut) IN
          /\ versionOutput' = stdOut
          /\ versionStr' = extractVersionFromOutput(stdOut)
          /\ IF err = "ok"
             THEN /\ events' = Append(events, "VersionGate")
                  /\ pc' = "helmLogin"
                  /\ exitError' = ""
             ELSE /\ events' = events \o <<"VersionGate", "VersionGateFailed">>
                  /\ Fatal(err)
    /\ UNCHANGED <<cfgVars, harborHost, chartmuseum, listVars, listHist,
                   mainVars, xferVars, legacyOps>>

\* helmLogin() fails: `helm registry login` exits non-zero
mainHelmLoginFails ==
    /\ pc = "helmLogin"
    /\ events' = events \o <<"Login", "LoginFailed">>
    /\ Fatal("fail to login to Helm")
    /\ versionOutput' = <<>>
    /\ versionStr' = <<>>
    /\ UNCHANGED <<cfgVars, harborHost, chartmuseum, listVars, listHist,
                   mainVars, xferVars, legacyOps>>

\* helmLogin() succeeds and main calls getHarborChartmuseumCharts, which
\* starts with an empty list at page 1
mainHelmLogin ==
    /\ pc = "helmLogin"
    /\ events' = events \o <<"Login", "Lister">>
    /\ pc' = "listProjects"
    /\ helmCharts' = <<>>
    /\ page' = 1
    /\ versionOutput' = <<>>
    /\ versionStr' = <<>>
    /\ UNCHANGED <<exitError, cfgVars, harborHost, chartmuseum, payload,
                   xTotalCount, projectName, chartNames, projectHelmCharts,
                   listHist, mainVars, xferVars, legacyOps>>

(***************************************************************************)
(* getHarborChartmuseumCharts: the paging loop over the projects.          *)
(***************************************************************************)
HasRepeat(s) == \E i, j \in 1..Len(s) : i # j /\ s[i] = s[j]

\* mutant: the charts of a project are put in front of the list
AppendChartsInFront(acc, new) == new \o acc

\* mutant: the charts of a project are appended twice
AppendChartsTwice(acc, new) == acc \o new \o new

\* helmCharts = append(helmCharts, projectHelmCharts...)
AppendCharts(acc, new) == acc \o new

\* ListProjects(page, pageSize) fails: log.Fatal inside the lister
ListProjectsFails ==
    /\ pc = "listProjects"
    /\ page <= MaxPages
    /\ events' = Append(events, "ListProjects")
    /\ listFailed' = TRUE
    /\ Fatal("fail to list harbor projects of page")
    /\ UNCHANGED <<cfgVars, gateVars, harborHost, chartmuseum, listVars,
                   received, projectsSeen, repeated, chartsRequests,
                   versionsReturned, totals, arrived, mainVars, xferVars,
                   legacyOps>>

\* ListProjects(page, pageSize) returns a page and the total count
ListProjects ==
    /\ pc = "listProjects"
    /\ page <= MaxPages
    /\ events' = Append(events, "ListProjects")
    /\ \E items \in ProjectPages, total \in TotalCounts :
          /\ payload' = items
          /\ xTotalCount' = total
          /\ totals' = totals \cup {total}
          /\ received' = received + Len(items)
          /\ projectsSeen' = projectsSeen \cup Range(items)
          /\ repeated' = (repeated \/ HasRepeat(items)
                            \/ Range(items) \cap projectsSeen # {})
    /\ pc' = "rangeProjects"
    /\ UNCHANGED <<exitError, cfgVars, gateVars, harborHost, chartmuseum, page,
                   helmCharts, projectName, chartNames, projectHelmCharts,
                   listFailed, chartsRequests, versionsReturned, arrived,
                   mainVars, xferVars, legacyOps>>

\* the next project of the page is not in the filter: continue
SkipProject ==
    /\ pc = "rangeProjects"
    /\ payload # <<>>
    /\ ~Retained(projectsToMigrate, Head(payload))
    /\ payload' = Tail(payload)
    /\ UNCHANGED <<pc, exitError, cfgVars, gateVars, harborHost, chartmuseum,
                   page, xTotalCount, helmCharts, projectName, chartNames,
                   projectHelmCharts, listHist, mainVars, xferVars, events,
                   legacyOps>>

\* mutant: a project whose chart listing fails is skipped (continue)
GetChartrepoRepoChartsFailsSkips ==
    /\ pc = "rangeProjects"
    /\ payload # <<>>
    /\ Retained(projectsToMigrate, Head(payload))
    /\ chartsRequests' = chartsRequests \cup {Head(payload)}
    /\ legacyOps' = legacyOps \cup {"GET"}
    /\ listFailed' = TRUE
    /\ payload' = Tail(payload)
    /\ UNCHANGED <<pc, exitError, cfgVars, gateVars, harborHost, chartmuseum,
                   page, xTotalCount, helmCharts, projectName, chartNames,
                   projectHelmCharts, received, projectsSeen, repeated,
                   versionsReturned, totals, arrived, mainVars, xferVars,
                   events>>

\* GetChartrepoRepoCharts(project) fails: getHarborProjectChartmuseumCharts
\* returns (nil, err), getHarborChartmuseumCharts returns (nil, err) and
\* main calls log.Fatal
GetChartrepoRepoChartsFails ==
    /\ pc = "rangeProjects"
    /\ payload # <<>>
    /\ Retained(projectsToMigrate, Head(payload))
    /\ chartsRequests' = chartsRequests \cup {Head(payload)}
    /\ legacyOps' = legacyOps \cup {"GET"}
    /\ listFailed' = TRUE
    /\ Fatal("fail to retrieve helm charts to migrate")
    /\ UNCHANGED <<cfgVars, gateVars, harborHost, chartmuseum, listVars,
                   received, projectsSeen, repeated, versionsReturned, totals,
                   arrived, mainVars, xferVars, events>>

\* GetChartrepoRepoCharts(project) returns the chart names of the project
GetChartrepoRepoCharts ==
    /\ pc = "rangeProjects"
    /\ payload # <<>>
    /\ Retained(projectsToMigrate, Head(payload))
    /\ chartsRequests' = chartsRequests \cup {Head(payload)}
    /\ legacyOps' = legacyOps \cup {"GET"}
    /\ \E names \in NameListings :
          /\ chartNames' = names
          /\ repeated' = (repeated \/ HasRepeat(names))
    /\ projectName' = Head(payload)
    /\ projectHelmCharts' = <<>>
    /\ pc' = "rangeCharts"
    /\ UNCHANGED <<exitError, cfgVars, gateVars, harborHost, chartmuseum, page,
                   payload, xTotalCount, helmCharts, listFailed, totals,
                   arrived, received, projectsSeen, versionsReturned, mainVars,
                   xferVars, events>>

\* GetChartrepoRepoChartsName(project, name) fails: as above, up to main
GetChartrepoRepoChartsNameFails ==
    /\ pc = "rangeCharts"
    /\ chartNames # <<>>
    /\ legacyOps' = legacyOps \cup {"GET"}
    /\ listFailed' = TRUE
    /\ Fatal("fail to retrieve helm charts to migrate")
    /\ UNCHANGED <<cfgVars, gateVars, harborHost, chartmuseum, listVars,
                   received, projectsSeen, repeated, chartsRequests,
                   versionsReturned, totals, arrived, mainVars, xferVars,
                   events>>

\* GetChartrepoRepoChartsName(project, name) returns the versions of a chart
GetChartrepoRepoChartsName ==
    /\ pc = "rangeCharts"
    /\ chartNames # <<>>
    /\ legacyOps' = legacyOps \cup {"GET"}
    /\ \E versions \in VersionListings :
          LET new == ChartsOf(projectName, Head(chartNames), versions) IN
          /\ Len(helmCharts) + Len(projectHelmCharts) + Len(new) <= MaxCharts
          /\ projectHelmCharts' = projectHelmCharts \o new
          /\ versionsReturned' = versionsReturned \cup Range(new)
          /\ arrived' = arrived \o new
          /\ repeated' = (repeated \/ HasRepeat(versions))
    /\ chartNames' = Tail(chartNames)
    /\ UNCHANGED <<pc, exitError, cfgVars, gateVars, harborHost, chartmuseum,
                   page, payload, xTotalCount, helmCharts, projectName,
                   listFailed, totals, received, projectsSeen, chartsRequests,
                   mainVars, xferVars, events>>

\* getHarborProjectChartmuseumCharts returns its charts, which are appended;
\* its locals are gone
ProjectChartsListed ==
    /\ pc = "rangeCharts"
    /\ chartNames = <<>>
    /\ helmCharts' = AppendCharts(helmCharts, projectHelmCharts)
    /\ projectHelmCharts' = <<>>
    /\ projectName' = ""
    /\ payload' = Tail(payload)
    /\ pc' = "rangeProjects"
    /\ UNCHANGED <<exitError, cfgVars, gateVars, harborHost, chartmuseum, page,
                   xTotalCount, chartNames, listHist, mainVars, xferVars,
                   events, legacyOps>>

\* end of a page that is not the last: page++
NextPage ==
    /\ pc = "rangeProjects"
    /\ payload = <<>>
    /\ ~LastPage(xTotalCount, page)
    /\ page' = page + 1
    /\ pc' = "listProjects"
    /\ UNCHANGED <<exitError, cfgVars, gateVars, harborHost, chartmuseum,
                   payload, xTotalCount, helmCharts, projectName, chartNames,
                   projectHelmCharts, listHist, mainVars, xferVars, events,
                   legacyOps>>

\* end of the last page: break, return helmCharts to main
ListerReturns ==
    /\ pc = "rangeProjects"
    /\ payload = <<>>
    /\ LastPage(xTotalCount, page)
    /\ helmChartsToMigrate' = helmCharts
    /\ events' = Append(events, "Listed")
    /\ pc' = "listed"
    /\ UNCHANGED <<exitError, cfgVars, gateVars, harborHost, chartmuseum,
                   listVars, listHist, idx, errorCount, out, xferVars,
                   legacyOps>>

\* main logs the first summary line and enters the migration loop.  The
\* locals of the listing are out of scope from here on; they and the
\* history of the listing go back to their initial values.
mainStartLoop ==
    /\ pc = "listed"
    /\ out' = Append(out, [line |-> "to migrate",
                           n |-> Len(helmChartsToMigrate)])
    /\ errorCount' = 0
    /\ idx' = 1
    /\ pc' = "migrate"
    /\ page' = 0
    /\ payload' = <<>>
    /\ xTotalCount' = 0
    /\ helmCharts' = <<>>
    /\ projectName' = ""
    /\ chartNames' = <<>>
    /\ projectHelmCharts' = <<>>
    /\ received' = 0
    /\ projectsSeen' = {}
    /\ repeated' = FALSE
    /\ chartsRequests' = {}
    /\ versionsReturned' = {}
    /\ totals' = {}
    /\ arrived' = <<>>
    /\ UNCHANGED <<exitError, cfgVars, gateVars, harborHost, chartmuseum,
                   listFailed, helmChartsToMigrate, xferVars, events,
                   legacyOps>>

(***************************************************************************)
(* The migration loop of main and migrateChartFromChartmuseumToOCI:        *)
(* pullChartFromChartmuseum, pushChartToOCI, removeChartFile.              *)
(***************************************************************************)
helmChart == helmChartsToMigrate[idx]

\* mutant: -destpath is not used
RepoURLWithoutDestPath(hc) == <<"oci://", harborHost, "/", hc.Project>>

\* repoURL of pushChartToOCI:
\* fmt.Sprintf("oci://%s/%s%s", harborHost, helmChart.Project, destPath)
RepoURL(hc) == <<"oci://", harborHost, "/", hc.Project>> \o destPath

\* repoURL of pushChartToOCI in the earlier version of the tool, which has
\* the flag -destproject: harborProject is destProject when that is given
RepoURLDestProject(hc, destProject) ==
    LET harborProject == IF destProject # "" THEN destProject
                         ELSE hc.Project
    IN <<"oci://", harborHost, "/", harborProject>> \o destPath

\* mutant: a file that exists is left as it is
WriteFileKeepsExisting(dir, name, data) ==
    [f \in DOMAIN dir \cup {name} |-> IF f \in DOMAIN dir THEN dir[f] ELSE data]

\* os.WriteFile(name, data): the file holds data afterwards
WriteFile(dir, name, data) ==
    [f \in DOMAIN dir \cup {name} |-> IF f = name THEN data ELSE dir[f]]

\* os.Remove(name)
Remove(dir, name) == [f \in DOMAIN dir \ {name} |-> dir[f]]

\* mutant: an error is counted twice
ErrorCountedTwice(count, err) == IF err # "ok" THEN count + 2 ELSE count

\* mutant: an error sets the counter instead of incrementing it
ErrorCountedOnce(count, err) == IF err # "ok" THEN 1 ELSE count

\* the loop body after migrateChartFromChartmuseumToOCI returned err:
\* errorCount++ on an error, then the next chart
ErrorCounted(count, err) == IF err # "ok" THEN count + 1 ELSE count

\* one sub-step of a transfer and whether it succeeded
Call(step, ok) == [step |-> step, ok |-> ok]

\* migrateChartFromChartmuseumToOCI returns err after sub-step sub
Returns(err, sub) ==
    /\ results' = Append(results,
                         [chart |-> helmChart, err |-> err,
                          calls |-> Append(calls, Call(sub, err = "ok"))])
    /\ calls' = <<>>
    /\ errorCount' = ErrorCounted(errorCount, err)
    /\ idx' = idx + 1
    /\ pc' = "migrate"

\* mutant: the chart is deleted from the backend instead of read
PullMethodDelete == "DELETE"

\* the method of the download request: http.MethodGet
PullMethod == "GET"

\* the Chartmuseum backend after a request for a chart: only DELETE removes
Served(store, method, hc) == IF method = "DELETE" THEN store \ {hc} ELSE store

\* statuses the backend may answer the GET with
Statuses(hc) == IF hc \in chartmuseum THEN {StatusOK, 500} ELSE {404, 500}

\* res, err := httpClient.Do(req): the GET is sent, and either fails (no
\* response) or is answered with a status
httpClientDo ==
    /\ pc = "migrate"
    /\ idx <= Len(helmChartsToMigrate)
    /\ legacyOps' = legacyOps \cup {PullMethod}
    /\ chartmuseum' = Served(chartmuseum, PullMethod, helmChart)
    /\ \/ res' = [err |-> TRUE, StatusCode |-> 0]
       \/ \E status \in Statuses(helmChart) :
             res' = [err |-> FALSE, StatusCode |-> status]
    /\ pc' = "pull"
    /\ UNCHANGED <<exitError, cfgVars, gateVars, harborHost, listVars,
                   listHist, mainVars, oci, files, calls, results, events>>

\* pullChartFromChartmuseum fails before anything is written: the request
\* failed, the status is not 200, or the body cannot be read
pullFails ==
    /\ pc = "pull"
    /\ res' = NoResponse
    /\ Returns("FetchError", "Fetch")
    /\ UNCHANGED <<exitError, cfgVars, gateVars, harborHost, chartmuseum,
                   listVars, listHist, helmChartsToMigrate, out, oci, files,
                   events, legacyOps>>

\* status 200 and body read, but os.WriteFile fails: the file may have been
\* created or truncated
pullWriteFails ==
    /\ pc = "pull"
    /\ ~res.err
    /\ res.StatusCode = StatusOK
    /\ \/ files' = files
       \/ files' = WriteFile(files, ChartFileName(helmChart), <<>>)
    /\ res' = NoResponse
    /\ Returns("FetchError", "Fetch")
    /\ UNCHANGED <<exitError, cfgVars, gateVars, harborHost, chartmuseum,
                   listVars, listHist, helmChartsToMigrate, out, oci, events,
                   legacyOps>>

\* mutant: the status of the response is not looked at
pullIgnoresStatus ==
    /\ pc = "pull"
    /\ ~res.err
    /\ files' = WriteFile(files, ChartFileName(helmChart),
                          Body(res.StatusCode, helmChart))
    /\ res' = NoResponse
    /\ calls' = <<Call("Fetch", TRUE)>>
    /\ pc' = "push"
    /\ UNCHANGED <<exitError, cfgVars, gateVars, harborHost, chartmuseum,
                   listVars, listHist, mainVars, oci, results, events,
                   legacyOps>>

\* status 200, body read and written to <name>-<version>.tgz
pull ==
    /\ pc = "pull"
    /\ ~res.err
    /\ res.StatusCode = StatusOK
    /\ files' = WriteFile(files, ChartFileName(helmChart),
                          Body(res.StatusCode, helmChart))
    /\ res' = NoResponse
    /\ calls' = <<Call("Fetch", TRUE)>>
    /\ pc' = "push"
    /\ UNCHANGED <<exitError, cfgVars, gateVars, harborHost, chartmuseum,
                   listVars, listHist, mainVars, oci, results, events,
                   legacyOps>>

\* mutant: a failed push is tried again
pushFailsRetried ==
    /\ pc = "push"
    /\ calls' = Append(calls, Call("Push", FALSE))
    /\ UNCHANGED <<pc, exitError, cfgVars, gateVars, harborHost, chartmuseum,
                   listVars, listHist, mainVars, oci, files, res, results,
                   events, legacyOps>>

\* `helm push` exits non-zero: migrateChartFromChartmuseumToOCI returns
pushFails ==
    /\ pc = "push"
    /\ Returns("PushError", "Push")
    /\ UNCHANGED <<exitError, cfgVars, gateVars, harborHost, chartmuseum,
                   listVars, listHist, helmChartsToMigrate, out, oci, files,
                   res, events, legacyOps>>

\* `helm push <file> <repoURL>` succeeds
push ==
    /\ pc = "push"
    /\ oci' = oci \cup {[chart |-> helmChart,
                         repo |-> RepoURL(helmChart),
                         file |-> ChartFileName(helmChart),
                         content |-> files[ChartFileName(helmChart)]]}
    /\ calls' = Append(calls, Call("Push", TRUE))
    /\ pc' = "remove"
    /\ UNCHANGED <<exitError, cfgVars, gateVars, harborHost, chartmuseum,
                   listVars, listHist, mainVars, files, res, results, events,
                   legacyOps>>

\* mutant: the error of os.Remove is dropped, the transfer returns nil
removeFailsIgnored ==
    /\ pc = "remove"
    /\ results' = Append(results,
                         [chart |-> helmChart, err |-> "ok",
                          calls |-> Append(calls, Call("Cleanup", FALSE))])
    /\ calls' = <<>>
    /\ errorCount' = ErrorCounted(errorCount, "ok")
    /\ idx' = idx + 1
    /\ pc' = "migrate"
    /\ UNCHANGED <<res, exitError, cfgVars, gateVars, harborHost, chartmuseum,
                   listVars, listHist, helmChartsToMigrate, out, oci, files,
                   events, legacyOps>>

\* os.Remove fails
removeFails ==
    /\ pc = "remove"
    /\ Returns("CleanupError", "Cleanup")
    /\ UNCHANGED <<exitError, cfgVars, gateVars, harborHost, chartmuseum,
                   listVars, listHist, helmChartsToMigrate, out, oci, files,
                   res, events, legacyOps>>

\* os.Remove succeeds: the transfer returns nil
remove ==
    /\ pc = "remove"
    /\ files' = Remove(files, ChartFileName(helmChart))
    /\ Returns("ok", "Cleanup")
    /\ UNCHANGED <<exitError, cfgVars, gateVars, harborHost, chartmuseum,
                   listVars, listHist, helmChartsToMigrate, out, oci, res,
                   events, legacyOps>>

\* mutant: failed transfers make the run end with log.Fatal
ReportExitsOnErrors ==
    /\ pc = "migrate"
    /\ idx > Len(helmChartsToMigrate)
    /\ IF errorCount > 0
       THEN Fatal("fail to migrate helm charts") /\ UNCHANGED <<out, events>>
       ELSE /\ out' = Append(out, [line |-> "successfully migrated",
                                   n |-> Len(helmChartsToMigrate) - errorCount])
            /\ events' = Append(events, "Reported")
            /\ pc' = "done"
            /\ exitError' = ""
    /\ UNCHANGED <<cfgVars, gateVars, harborHost, chartmuseum, listVars,
                   listHist, helmChartsToMigrate, idx, errorCount, xferVars,
                   legacyOps>>

\* after the last chart: the second summary line, and main returns
Report ==
    /\ pc = "migrate"
    /\ idx > Len(helmChartsToMigrate)
    /\ out' = Append(out, [line |-> "successfully migrated",
                           n |-> Len(helmChartsToMigrate) - errorCount])
    /\ events' = Append(events, "Reported")
    /\ pc' = "done"
    /\ UNCHANGED <<exitError, cfgVars, gateVars, harborHost, chartmuseum,
                   listVars, listHist, helmChartsToMigrate, idx, errorCount,
                   xferVars, legacyOps>>

Next ==
    \/ initFlags
    \/ initHarborClientsNoClient
    \/ initHarborClients
    \/ initHarborHost
    \/ mainCheckHelmVersionNoHelm
    \/ mainCheckHelmVersion
    \/ mainHelmLoginFails
    \/ mainHelmLogin
    \/ ListProjectsFails
    \/ ListProjects
    \/ SkipProject
    \/ GetChartrepoRepoChartsFails
    \/ GetChartrepoRepoCharts
    \/ GetChartrepoRepoChartsNameFails
    \/ GetChartrepoRepoChartsName
    \/ ProjectChartsListed
    \/ NextPage
    \/ ListerReturns
    \/ mainStartLoop
    \/ httpClientDo
    \/ pullFails
    \/ pullWriteFails
    \/ pull
    \/ pushFails
    \/ push
    \/ removeFails
    \/ remove
    \/ Report

Spec == Init /\ [][Next]_vars

\* once the listing has returned, main goes on and every external call of
\* the transfer stage returns
FairSpec ==
    Spec /\ WF_vars(mainStartLoop \/ httpClientDo \/ pullFails
                      \/ pullWriteFails \/ pull
                      \/ pushFails \/ push \/ removeFails \/ remove
                      \/ Report)

\* every request of the listing is answered or fails, and the loops of the
\* listing go on
ListFairSpec ==
    Spec /\ WF_vars(ListProjectsFails \/ ListProjects \/ SkipProject
                      \/ GetChartrepoRepoChartsFails
                      \/ GetChartrepoRepoCharts
                      \/ GetChartrepoRepoChartsNameFails
                      \/ GetChartrepoRepoChartsName
                      \/ ProjectChartsListed \/ NextPage \/ ListerReturns)

(***************************************************************************)
(* Properties.                                                             *)
(***************************************************************************)
\* number of occurrences of x in s
Count(s, x) == Cardinality({i \in 1..Len(s) : s[i] = x})

IsPrefix(s, t) == Len(s) <= Len(t) /\ \A i \in 1..Len(s) : s[i] = t[i]

\* transfers that returned an error
Failed == {i \in 1..Len(results) : results[i].err # "ok"}

\* the stages entered, without the ListProjects requests
IsStage(e) == e # "ListProjects"
Stages == SelectSeq(events, IsStage)

\* the ListProjects requests of the listing, as opposed to the one of init
ListerRequests ==
    {i \in 1..Len(events) :
        /\ events[i] = "ListProjects"
        /\ \E j \in 1..(i - 1) : events[j] = "Lister"}

\* C1: the driver calls the transfer for every chart of the list, in order,
\* whatever the outcome of the earlier ones, and when the loop has ended
\* errorCount is the number of transfers that returned an error.
C1_FailureIsolation ==
    /\ Len(results) <= Len(helmChartsToMigrate)
    /\ \A i \in 1..Len(results) : results[i].chart = helmChartsToMigrate[i]
    /\ pc \in {"migrate", "pull", "push", "remove", "done"} =>
          /\ idx = Len(results) + 1
          /\ errorCount = Cardinality(Failed)
    /\ pc = "done" => Len(results) = Len(helmChartsToMigrate)

\* a run in which the first transfer failed and the second succeeded
C1_Witness ==
    /\ pc = "done"
    /\ Len(results) = 2
    /\ results[1].err = "FetchError"
    /\ results[2].err = "ok"
    /\ errorCount = 1

\* C2: when Fetch succeeded and Push failed, the transfer has attempted
\* Cleanup after the push and returns the PushError.
C2_CleanupAfterPushFailure ==
    \A i \in 1..Len(results) :
        LET r == results[i] IN
        (/\ Len(r.calls) >= 2
         /\ r.calls[1] = Call("Fetch", TRUE)
         /\ r.calls[2] = Call("Push", FALSE))
        => /\ Len(r.calls) = 3
           /\ r.calls[3].step = "Cleanup"
           /\ r.err = "PushError"

\* C3: when a request of the listing fails the run ends there: nothing is
\* handed to main, no transfer is called, nothing is written, pushed or
\* reported.
C3_ListingAllOrNothing ==
    listFailed =>
        /\ pc = "fatal"
        /\ helmChartsToMigrate = <<>>
        /\ "Listed" \notin Range(events)
        /\ results = <<>>
        /\ calls = <<>>
        /\ files = <<>>
        /\ oci = {}
        /\ out = <<>>

\* a request of page 2 or later fails after charts had been accumulated
C3_Witness ==
    /\ listFailed
    /\ page = 2
    /\ helmCharts # <<>>

\* C4: the stages are entered in the order version gate, login, listing,
\* listed, reported, each at most once and each only after the one before
\* has succeeded; a transfer is called only after the listing has returned;
\* a failing gate, login or listing ends the run at once, without summary.
C4_StageOrder ==
    /\ \/ IsPrefix(Stages, <<"VersionGate", "Login", "Lister", "Listed",
                            "Reported">>)
       \/ Stages = <<"VersionGate", "VersionGateFailed">>
       \/ Stages = <<"VersionGate", "Login", "LoginFailed">>
    /\ (pc \in {"migrate", "pull", "push", "remove"} \/ results # <<>>
           \/ calls # <<>>)
          => "Listed" \in Range(events)
    /\ (received > 0 \/ chartsRequests # {} \/ ListerRequests # {})
          => "Lister" \in Range(events)
    /\ ("VersionGateFailed" \in Range(events)
          \/ "LoginFailed" \in Range(events) \/ listFailed)
          => pc = "fatal" /\ out = <<>> /\ results = <<>> /\ calls = <<>>
    /\ out # <<>> => "Listed" \in Range(events)

\* a complete run with a transfer
C4_Witness ==
    /\ pc = "done"
    /\ Stages = <<"VersionGate", "Login", "Lister", "Listed", "Reported">>
    /\ results # <<>>

\* C5 as claimed: the version gate runs exactly once, before every
\* ListProjects request of the process.
C5_GateBeforeAnyListProjects ==
    /\ Count(events, "VersionGate") <= 1
    /\ \A i \in 1..Len(events) :
          events[i] = "ListProjects"
          => \E j \in 1..(i - 1) : events[j] = "VersionGate"

\* C5 amended: the version gate runs at most once, and once in every run
\* that gets past init(); it runs after the ListProjects request of
\* initHarborClients and before every ListProjects request of the listing.
C5_GateBeforeListerRequests ==
    /\ Count(events, "VersionGate") <= 1
    /\ pc \in {"helmLogin", "listProjects", "rangeProjects", "rangeCharts",
               "listed", "migrate", "pull", "push", "remove", "done"}
          => Count(events, "VersionGate") = 1
    /\ \A i \in 1..Len(events) :
          events[i] = "VersionGate" => i = 2 /\ events[1] = "ListProjects"
    /\ \A i \in ListerRequests :
          \E j \in 1..(i - 1) : events[j] = "VersionGate"

\* a run that has sent the request of init and two of the listing
C5_Witness ==
    /\ pc = "done"
    /\ Count(events, "ListProjects") = 3
    /\ Count(events, "VersionGate") = 1

\* the two summary lines of a run over n charts of which f failed
Summary(n, f) == << [line |-> "to migrate", n |-> n],
                    [line |-> "successfully migrated", n |-> n - f] >>

\* C6: once the listing has returned, the run reaches its end without a
\* fatal error, and has then logged both summary lines: the number of charts
\* listed, and that number less the failed transfers.
C6_AlwaysReported ==
    (pc = "listed") ~>
        (/\ pc = "done"
         /\ exitError = ""
         /\ Len(results) = Len(helmChartsToMigrate)
         /\ out = Summary(Len(helmChartsToMigrate), Cardinality(Failed)))

\* a run that is reported although every transfer failed
C6_Witness ==
    /\ pc = "done"
    /\ Len(results) = 2
    /\ Cardinality(Failed) = 2
    /\ out = Summary(2, 2)

\* all charts the listing has gathered so far
Gathered == Range(helmCharts) \cup Range(projectHelmCharts)
               \cup Range(helmChartsToMigrate)

\* C7: with a filter, chart listings are requested only for projects of the
\* filter and every chart yielded is of such a project; without a filter,
\* every project received has had its charts listed and every chart the
\* backend returned is yielded.
C7_TenantFiltering ==
    /\ Len(projectsToMigrate) > 0 =>
          /\ chartsRequests \subseteq Range(projectsToMigrate)
          /\ pc = "rangeCharts" => projectName \in Range(projectsToMigrate)
          /\ \A c \in Gathered : c.Project \in Range(projectsToMigrate)
    /\ (Len(projectsToMigrate) = 0 /\ pc = "listed") =>
          /\ projectsSeen \subseteq chartsRequests
          /\ versionsReturned \subseteq Range(helmChartsToMigrate)
          /\ \A c \in Range(helmChartsToMigrate) : c.Project \in projectsSeen

\* the README's example: filter pr1, pr2 and projects pr1, pr2, pr3
C7_Witness ==
    /\ pc = "listed"
    /\ projectsToMigrate = <<"pr1", "pr2">>
    /\ projectsSeen = {"pr1", "pr2", "pr3"}
    /\ chartsRequests = {"pr1", "pr2"}
    /\ Len(helmChartsToMigrate) = 2

\* C8 as claimed: the list yielded never holds a chart twice, whatever the
\* backend returns.
C8_NoDuplicates == ~HasRepeat(helmChartsToMigrate)

\* C8 amended: the list yielded holds no chart twice when the backend has
\* returned no project twice over the pages, no name twice in a chart
\* listing and no version twice in a version listing.
C8_NoDuplicatesOfItsOwn ==
    ~repeated =>
        /\ ~HasRepeat(helmCharts \o projectHelmCharts)
        /\ pc = "listed" => ~HasRepeat(helmChartsToMigrate)

\* two charts yielded from a backend that repeated nothing
C8_Witness ==
    /\ pc = "listed"
    /\ ~repeated
    /\ Len(helmChartsToMigrate) = 2

\* C9 as claimed: when the listing returns, the projects received are at
\* least as many as the total the server reported.
C9_ReceivedReachesTotal == pc = "listed" => received >= xTotalCount

\* C9 amended: pages 1, 2, 3, ... are requested, and paging stops exactly
\* when page * pageSize has reached the total reported with the last page.
C9_StopsAtPageTimesSize ==
    /\ pc = "listed" => xTotalCount <= page * defaultPageSize
    /\ (pc = "listProjects" /\ page > 1)
          => xTotalCount > (page - 1) * defaultPageSize
    /\ pc \in {"rangeProjects", "rangeCharts", "listed"}
          => Cardinality(ListerRequests) = page
    /\ pc = "listProjects" => Cardinality(ListerRequests) = page - 1

\* a listing that returned after two pages with fewer projects than reported
C9_Witness ==
    /\ pc = "listed"
    /\ page = 2
    /\ received < xTotalCount

\* C10: the Chartmuseum backend only receives GET requests and stores after
\* every step what it stored when the run started.
C10_LegacyReadOnly ==
    /\ chartmuseum = ChartmuseumStore
    /\ legacyOps \subseteq {"GET"}

\* a run that listed, fetched and pushed a chart
C10_Witness ==
    /\ pc = "done"
    /\ "GET" \in legacyOps
    /\ \E i \in 1..Len(results) :
          results[i].err = "ok" /\ results[i].chart \in chartmuseum
    /\ oci # {}

\* C11: the working directory never holds more than one chart file, holds
\* none between two transfers (so none of an earlier chart while a later
\* one is transferred), and holds none when the run has been reported.
C11_OneTransientFile ==
    /\ Cardinality(DOMAIN files) <= 1
    /\ pc \in {"migrate", "pull", "done"} => files = <<>>
    /\ pc \in {"push", "remove"} => DOMAIN files = {ChartFileName(helmChart)}

\* a required flag (--url, --username, --password) has not been given
MissingRequired ==
    harborURL = <<>> \/ harborUsername = "" \/ harborPassword = ""

\* C12: when a required flag is missing the run ends in initFlags: with
\* log.Fatal naming a missing flag (or, under --version, after printing the
\* version), and no ListProjects request, no helm command, no chart listing
\* and no download is ever issued.
C12_MissingConfigAborts ==
    MissingRequired =>
        /\ pc \in {"initFlags", "fatal", "exit"}
        /\ pc = "exit" => showVersion
        /\ pc = "fatal" =>
              /\ ~showVersion
              /\ exitError \in {"Missing required --url flag",
                                "Missing required --username flag",
                                "Missing required --password flag"}
        /\ events = <<>>
        /\ legacyOps = {}
        /\ received = 0
        /\ chartsRequests = {}
        /\ calls = <<>>
        /\ results = <<>>
        /\ files = <<>>
        /\ oci = {}

\* a run with URL and username but no password has ended in initFlags
C12_Witness ==
    /\ pc = "fatal"
    /\ harborURL # <<>>
    /\ harborUsername # ""
    /\ harborPassword = ""
    /\ exitError = "Missing required --password flag"
    /\ events = <<>>

\* checkHelmVersion has read helm's output and returned
GateReturned ==
    \/ pc = "helmLogin"
    \/ pc = "fatal" /\ exitError \in {"ParseError", "FormatError",
                                      "TooOldError"}

\* major, minor and patch of a core of three numbers
Triple(core) == <<NumVal(core[1]), NumVal(core[2]), NumVal(core[3])>>

\* the minimum, v3.19.0, as such a triple
MinTriple ==
    LET m == Parsed(Tail(minVersion)) IN <<m.major, m.minor, m.patch>>

\* a is below b in the order of (major, minor, patch)
TripleBelow(a, b) ==
    \/ a[1] < b[1]
    \/ a[1] = b[1] /\ a[2] < b[2]
    \/ a[1] = b[1] /\ a[2] = b[2] /\ a[3] < b[3]

\* C13 as claimed: a version the gate has parsed fails with TooOldError
\* when its (major, minor, patch) is below that of the minimum, and passes
\* when it is equal or above.
C13_TripleDecides ==
    GateReturned =>
        \A prefix \in VersionPrefixes, core \in VersionCores,
           prerelease \in Prereleases, metadata \in Metadata :
            (/\ Len(core) = 3
             /\ versionOutput
                   = ShortVersion(prefix, core, prerelease, metadata))
            => IF TripleBelow(Triple(core), MinTriple)
               THEN pc = "fatal" /\ exitError = "TooOldError"
               ELSE pc = "helmLogin"

\* C13 amended: the order is that of semantic versions: (major, minor,
\* patch) first, and with the same three numbers a version with a
\* prerelease tag is below the one without.  A version below the minimum
\* fails with TooOldError, every other one passes; v3.19.0 itself passes,
\* a prerelease of it does not.
C13_SemverPrecedenceDecides ==
    GateReturned =>
        \A prefix \in VersionPrefixes, core \in VersionCores,
           prerelease \in Prereleases, metadata \in Metadata :
            (/\ Len(core) = 3
             /\ versionOutput
                   = ShortVersion(prefix, core, prerelease, metadata))
            => IF \/ TripleBelow(Triple(core), MinTriple)
                  \/ Triple(core) = MinTriple /\ prerelease # <<>>
               THEN pc = "fatal" /\ exitError = "TooOldError"
               ELSE pc = "helmLogin"

\* the gate has accepted the minimum itself, reported with build metadata
C13_Witness ==
    /\ pc = "helmLogin"
    /\ versionOutput = <<"v", "3", ".", "1", "9", ".", "0", "+", "g", "c", "e">>
    /\ versionStr = <<"3", ".", "1", "9", ".", "0">>

\* C14: when helm's output is an optional "v", numbers joined by dots and
\* an optional "+metadata", the gate extracts exactly the numbers joined by
\* dots when there are three of them, and fails with ParseError, having
\* extracted nothing, when there are not.
C14_ExtractsNumericCore ==
    GateReturned =>
        \A prefix \in VersionPrefixes, core \in VersionCores,
           metadata \in Metadata :
            versionOutput = ShortVersion(prefix, core, <<>>, metadata)
            => IF Len(core) = 3
               THEN /\ versionStr = Join(core, ".")
                    /\ exitError # "ParseError"
               ELSE /\ versionStr = <<>>
                    /\ pc = "fatal"
                    /\ exitError = "ParseError"

\* an output of four components with metadata has failed with ParseError
C14_Witness ==
    /\ pc = "fatal"
    /\ exitError = "ParseError"
    /\ versionOutput = <<"v", "3", ".", "1", "9", ".", "0", ".", "1",
                         "+", "g", "c", "e">>

\* how often a sub-step occurs among the calls of one transfer
StepCount(cs, step) == Cardinality({k \in 1..Len(cs) : cs[k].step = step})

\* Fetch once and first, then Push and Cleanup at most once each
OncePerStep(cs) ==
    /\ cs # <<>> => cs[1].step = "Fetch"
    /\ StepCount(cs, "Fetch") <= 1
    /\ StepCount(cs, "Push") <= 1
    /\ StepCount(cs, "Cleanup") <= 1

\* C15: the transfers are called in the order of the list, one after the
\* other: the transfer in progress is that of the chart after those that
\* have returned, and none is in progress between two of them.  Every
\* transfer that has returned has called Fetch exactly once and Push and
\* Cleanup at most once each; so has, so far, the one in progress.
C15_SequentialNoRetry ==
    /\ \A i \in 1..Len(results) :
          /\ results[i].chart = helmChartsToMigrate[i]
          /\ StepCount(results[i].calls, "Fetch") = 1
          /\ OncePerStep(results[i].calls)
    /\ OncePerStep(calls)
    /\ pc \in {"push", "remove"} =>
          /\ idx = Len(results) + 1
          /\ idx <= Len(helmChartsToMigrate)
          /\ StepCount(calls, "Fetch") = 1
    /\ pc \in {"migrate", "pull", "done"} => calls = <<>>
    /\ pc \in {"migrate", "pull"} => idx = Len(results) + 1

\* two transfers in turn: the push of the first failed, the second went
\* through all three sub-steps
C15_Witness ==
    /\ pc = "done"
    /\ Len(results) = 2
    /\ results[1].calls = <<Call("Fetch", TRUE), Call("Push", FALSE)>>
    /\ results[2].calls = <<Call("Fetch", TRUE), Call("Push", TRUE),
                            Call("Cleanup", TRUE)>>

\* the error a failing sub-step makes the transfer return
ErrorOf(step) ==
    CASE step = "Fetch" -> "FetchError"
      [] step = "Push" -> "PushError"
      [] step = "Cleanup" -> "CleanupError"

\* the sub-steps of a transfer that failed
FailedCalls(cs) == {k \in 1..Len(cs) : ~cs[k].ok}

\* C16: a transfer returns the error of the first sub-step that failed, and
\* that sub-step is the last one it called; it returns CleanupError only
\* after Fetch and Push succeeded; it returns nil exactly when Fetch, Push
\* and Cleanup all succeeded, so a failed cleanup after a successful push
\* is counted as a failed transfer.
C16_FirstFailureReturned ==
    /\ \A i \in 1..Len(results) :
          LET r == results[i] IN
          /\ FailedCalls(r.calls) # {} =>
                /\ FailedCalls(r.calls) = {Len(r.calls)}
                /\ r.err = ErrorOf(r.calls[Len(r.calls)].step)
          /\ r.err = "CleanupError" =>
                r.calls = <<Call("Fetch", TRUE), Call("Push", TRUE),
                            Call("Cleanup", FALSE)>>
          /\ r.err = "ok" <=>
                r.calls = <<Call("Fetch", TRUE), Call("Push", TRUE),
                            Call("Cleanup", TRUE)>>
    /\ pc \in {"migrate", "done"} =>
          errorCount = Cardinality({i \in 1..Len(results) :
                                       FailedCalls(results[i].calls) # {}})

\* the push of a chart succeeded, its cleanup failed, and the transfer has
\* been counted as failed
C16_Witness ==
    /\ pc = "done"
    /\ Len(results) = 1
    /\ results[1].calls = <<Call("Fetch", TRUE), Call("Push", TRUE),
                            Call("Cleanup", FALSE)>>
    /\ results[1].err = "CleanupError"
    /\ errorCount = 1
    /\ oci # {}

\* the request of the chart in transfer failed or was not answered with 200
FetchRefused == pc = "pull" /\ (res.err \/ res.StatusCode # StatusOK)

\* pushChartToOCI is called for the chart in transfer
PushInvoked == pc' = "push"

\* C17: pushChartToOCI is called for a chart only in the step in which the
\* answer 200 to its GET has been written to <name>-<version>.tgz; and when
\* the GET failed or was answered with another status, the transfer returns
\* a FetchError in the next step, which changes no file and pushes nothing.
\* Hence no transfer that has returned called Push after a failed Fetch.
C17_FetchGuardsPush ==
    /\ [][/\ PushInvoked =>
                /\ pc = "pull"
                /\ ~res.err
                /\ res.StatusCode = StatusOK
                /\ ChartFileName(helmChart) \in DOMAIN files'
                /\ files'[ChartFileName(helmChart)] = Payload(helmChart)
                /\ calls' = <<Call("Fetch", TRUE)>>
          /\ FetchRefused =>
                /\ files' = files
                /\ oci' = oci
                /\ pc' = "migrate"
                /\ results' = Append(results,
                                     [chart |-> helmChart,
                                      err |-> "FetchError",
                                      calls |-> <<Call("Fetch", FALSE)>>])
         ]_vars
    /\ [](\A i \in 1..Len(results) :
             StepCount(results[i].calls, "Push") > 0
             => results[i].calls[1] = Call("Fetch", TRUE))

\* the chart of pr3, which the backend no longer stores, could not be
\* fetched: nothing was written and nothing pushed
C17_Witness ==
    /\ pc = "done"
    /\ Len(results) = 1
    /\ results[1].chart \notin chartmuseum
    /\ results[1].err = "FetchError"
    /\ results[1].calls = <<Call("Fetch", FALSE)>>
    /\ files = <<>>
    /\ oci = {}

\* max(1, ceil(total / pageSize))
PagesFor(total) ==
    IF total = 0 THEN 1
    ELSE (total + defaultPageSize - 1) \div defaultPageSize

\* the listing is under way
Listing == pc \in {"listProjects", "rangeProjects", "rangeCharts"}

\* C18: when every page so far came with the same total, the listing has
\* not requested more than max(1, ceil(total / pageSize)) pages, and when
\* it returns it has requested exactly that many, whatever the pages held;
\* it has always requested page 1.  And the listing comes to an end: it
\* returns, or a request of it fails.
C18_PagingTerminates ==
    /\ [](\A total \in TotalCounts :
             totals = {total} =>
                /\ Listing =>
                      /\ page <= PagesFor(total)
                      /\ Cardinality(ListerRequests) <= PagesFor(total)
                /\ pc = "listed" =>
                      /\ page = PagesFor(total)
                      /\ Cardinality(ListerRequests) = PagesFor(total))
    /\ [](pc = "listed" => Cardinality(ListerRequests) >= 1)
    /\ Listing ~> (pc \in {"listed", "fatal"})

\* two pages were requested for a constant total of eleven, and both pages
\* were empty
C18_Witness ==
    /\ pc = "listed"
    /\ totals = {defaultPageSize + 1}
    /\ page = 2
    /\ Cardinality(ListerRequests) = 2
    /\ received = 0

\* C19: the list the listing builds, and yields when it returns, is the
\* charts of the version listings in the order in which they arrived: one
\* chart (project, name, version) per version returned, for the project and
\* the name the listing was requested for, nothing added, dropped or
\* re-ordered; only retained projects are asked for.  The list is thus a
\* function of the configuration and of what the backend answered.
C19_YieldInArrivalOrder ==
    /\ Listing => helmCharts \o projectHelmCharts = arrived
    /\ pc = "listed" =>
          /\ helmChartsToMigrate = arrived
          /\ helmCharts = arrived
    /\ \A i \in 1..Len(arrived) :
          /\ Retained(projectsToMigrate, arrived[i].Project)
          /\ arrived[i].Project \in chartsRequests

\* charts of two pages, in page order: pr3 of page 1 before pr1 of page 2,
\* and a project of which nothing was returned
C19_Witness ==
    /\ pc = "listed"
    /\ page = 2
    /\ Len(helmChartsToMigrate) = 2
    /\ helmChartsToMigrate[1].Project = "pr3"
    /\ helmChartsToMigrate[2].Project = "pr1"
    /\ "pr2" \in chartsRequests

\* oci://<registry host>/<target tenant><sub-path>
Coordinate(host, tenant, subPath) == <<"oci://", host, "/", tenant>> \o subPath

\* the project pushed to: that of the chart unless an override is given
TargetTenant(hc, override) == IF override = "" THEN hc.Project ELSE override

\* C20: every push made for a chart went to oci://<host of -url>/<project
\* of the chart><-destpath>, so two pushes for the same chart went to the
\* same place; and the earlier version of the tool, given -destproject,
\* pushes every chart to that project instead, at the same host and
\* sub-path, and without -destproject to the same place as this version.
C20_DestinationCoordinate ==
    /\ \A r \in oci :
          /\ r.repo = Coordinate(UrlHost(harborURL),
                                 TargetTenant(r.chart, ""), destPath)
          /\ \A destProject \in DestProjects :
                RepoURLDestProject(r.chart, destProject)
                   = Coordinate(UrlHost(harborURL),
                                TargetTenant(r.chart, destProject), destPath)
          /\ RepoURLDestProject(r.chart, "") = r.repo
    /\ \A r1, r2 \in oci : r1.chart = r2.chart => r1.repo = r2.repo

\* a chart of pr1 has been pushed under the sub-path /charts
C20_Witness ==
    /\ pc = "done"
    /\ destPath = <<"/charts">>
    /\ \E r \in oci :
          /\ r.chart.Project = "pr1"
          /\ r.repo = <<"oci://", "harbor.local", "/", "pr1", "/charts">>

\* C21: when pushChartToOCI is called for a chart, the file
\* <name>-<version>.tgz holds the payload the backend served for that very
\* chart in this transfer, also when a chart of the same name and version
\* of another project was transferred before and its file is still there;
\* so every push has carried the payload of the chart it was made for.
C21_PushedPayloadIsFetched ==
    /\ pc = "push" =>
          /\ ChartFileName(helmChart) \in DOMAIN files
          /\ files[ChartFileName(helmChart)] = Payload(helmChart)
    /\ \A r \in oci :
          /\ r.file = ChartFileName(r.chart)
          /\ r.content = Payload(r.chart)

\* demo-1.0.0 of pr1 was fetched and its push failed, which left the file;
\* then demo-1.0.0 of pr2 was fetched into the same file and pushed
C21_Witness ==
    /\ pc = "done"
    /\ Len(results) = 2
    /\ results[1].chart.Project = "pr1"
    /\ results[2].chart.Project = "pr2"
    /\ ChartFileName(results[1].chart) = ChartFileName(results[2].chart)
    /\ results[1].err = "PushError"
    /\ results[2].err = "ok"
    /\ \E r \in oci : r.chart = results[2].chart

\* C22: during the transfers and after them, errorCount is at least 0 and
\* at most the number of transfers that have returned, which is at most
\* the number of charts listed; errorCount never decreases and grows by at
\* most one, and only in a step in which a transfer returns; the number of
\* migrated charts reported is between 0 and the number listed.
C22_CountersConsistent ==
    /\ [](pc \in {"migrate", "pull", "push", "remove", "done"} =>
             /\ 0 <= errorCount
             /\ errorCount <= Len(results)
             /\ Len(results) <= Len(helmChartsToMigrate)
             /\ Len(helmChartsToMigrate) - errorCount
                   \in 0..Len(helmChartsToMigrate)
             /\ pc = "done" =>
                   /\ Len(out) = 2
                   /\ out[1].n = Len(helmChartsToMigrate)
                   /\ out[2].n = Len(helmChartsToMigrate) - errorCount
                   /\ out[2].n \in 0..out[1].n)
    /\ [][/\ errorCount' \in {errorCount, errorCount + 1}
          /\ errorCount' = errorCount + 1 =>
                Len(results') = Len(results) + 1
          /\ Len(results') \in {Len(results), Len(results) + 1}
         ]_vars

\* between two transfers: the first of two charts has failed
C22_Witness ==
    /\ pc = "pull"
    /\ Len(helmChartsToMigrate) = 2
    /\ Len(results) = 1
    /\ errorCount = 1

=============================================================================
